---- MODULE Spec2Model ----
(***************************************************************************)
(* MonthView (src/components/calendar/Calendar.tsx): a month-grid calendar *)
(* with day selection and an asynchronous order submission.                *)
(*                                                                         *)
(* A Date is a record [day, ms]: the local calendar day as a count of days *)
(* since 1970-01-01 and the milliseconds since local midnight.  The        *)
(* date-fns helpers the component imports work on the local calendar       *)
(* fields of a Date, and are modelled on that record.                      *)
(* The layout width, the styles and the texts of the headers are           *)
(* presentation and are not part of the state.                             *)
(***************************************************************************)
EXTENDS Integers, Sequences, FiniteSets, Bags, TLC

VARIABLES
    from,          \* prop: the reference date (owned by the parent)
    offerDays,     \* prop: list of date strings with an offer
    orderDays,     \* prop: list of date strings with an order
    now,           \* the wall clock read by new Date()
    days,          \* the days array built by the last render
    selectedDate,  \* useState<string | null>
    popup,         \* useState<{visible, message, type}>
    inflight,      \* bag of handleOrder invocations suspended at an await
    completed      \* what the gateway did to the submission that settled last

vars == <<from, offerDays, orderDays, now, days, selectedDate, popup, inflight, completed>>

-----------------------------------------------------------------------------
(* Bounds of the model.                                                    *)

\* most date strings in offerDays and orderDays together (grid specification)
MaxKeys == 2
\* months the grid specification navigates away from a starting date
GridSpan == 2
\* months the component specification navigates away from a starting date
NavSpan == 1
\* most handleOrder invocations suspended at once
MaxInFlight == 2

-----------------------------------------------------------------------------
(* The local calendar of a JavaScript Date.                                *)

MsPerDay == 24 * 60 * 60 * 1000

\* days since 1970-01-01 of the civil date y-m-d (m in 1..12)
DaysFromCivil(y, m, d) ==
    LET yy  == IF m <= 2 THEN y - 1 ELSE y
        era == yy \div 400
        yoe == yy - era * 400
        mp  == IF m > 2 THEN m - 3 ELSE m + 9
        doy == (153 * mp + 2) \div 5 + d - 1
        doe == yoe * 365 + yoe \div 4 - yoe \div 100 + doy
    IN  era * 146097 + doe - 719468

\* the civil date [y, m, d] of a count of days since 1970-01-01, computed in
\* steps: the 400-year era, the day of the era, the year of the era, the day
\* of the year counted from 1 March
CivilOfDayOfYear(marchYear, doy) ==
    LET mp == (5 * doy + 2) \div 153
    IN  [y |-> IF mp < 10 THEN marchYear ELSE marchYear + 1,
         m |-> IF mp < 10 THEN mp + 3 ELSE mp - 9,
         d |-> doy - (153 * mp + 2) \div 5 + 1]

CivilOfYearOfEra(era, doe, yoe) ==
    CivilOfDayOfYear(yoe + era * 400, doe - (365 * yoe + yoe \div 4 - yoe \div 100))

CivilOfDayOfEra(era, doe) ==
    CivilOfYearOfEra(era, doe,
        (doe - doe \div 1460 + doe \div 36524 - doe \div 146096) \div 365)

CivilFromDays(z) ==
    CivilOfDayOfEra((z + 719468) \div 146097,
                    (z + 719468) - ((z + 719468) \div 146097) * 146097)

\* The days the specifications visit.  CivilFromDays and the date strings of
\* these days are tabulated once; outside the table they are computed.
TabulatedDays == DaysFromCivil(2019, 1, 1)..DaysFromCivil(2027, 12, 31)

\* (@@ makes the table an explicit function)
CivilTable == [z \in TabulatedDays |-> CivilFromDays(z)] @@ <<>>

CivilOf(z) == IF z \in TabulatedDays THEN CivilTable[z] ELSE CivilFromDays(z)

MkDate(y, m, d, ms) == [day |-> DaysFromCivil(y, m, d), ms |-> ms]

getFullYear(date) == CivilOf(date.day).y
\* 1..12 (Date.getMonth() + 1)
getMonth(date) == CivilOf(date.day).m
getDate(date) == CivilOf(date.day).d
\* 0 = Sunday .. 6 = Saturday; 1970-01-01 was a Thursday
getDay(date) == (date.day + 4) % 7

\* date1 <= date2 and date1 < date2 on Dates compare the time values
DateLE(a, b) == a.day < b.day \/ (a.day = b.day /\ a.ms <= b.ms)
DateLT(a, b) == a.day < b.day \/ (a.day = b.day /\ a.ms < b.ms)

-----------------------------------------------------------------------------
(* date-fns.                                                               *)

startOfMonth(date) ==
    [day |-> DaysFromCivil(getFullYear(date), getMonth(date), 1), ms |-> 0]

\* setFullYear(year, month + 1, 0); setHours(23, 59, 59, 999)
endOfMonth(date) ==
    LET y == getFullYear(date)
        m == getMonth(date)
        firstOfNext == IF m = 12 THEN DaysFromCivil(y + 1, 1, 1)
                                 ELSE DaysFromCivil(y, m + 1, 1)
    IN  [day |-> firstOfNext - 1, ms |-> MsPerDay - 1]

startOfWeek(date, startsOn) ==
    LET dow  == getDay(date)
        diff == (IF dow < startsOn THEN 7 ELSE 0) + dow - startsOn
    IN  [day |-> date.day - diff, ms |-> 0]

endOfWeek(date, startsOn) ==
    LET dow  == getDay(date)
        diff == (IF dow < startsOn THEN -7 ELSE 0) + 6 - (dow - startsOn)
    IN  [day |-> date.day + diff, ms |-> MsPerDay - 1]

addDays(date, amount) == [day |-> date.day + amount, ms |-> date.ms]

\* the day of the month is kept, or clamped to the last day of the target month
addMonths(date, amount) ==
    LET c   == CivilOf(date.day)
        idx == c.y * 12 + (c.m - 1) + amount
        ty  == idx \div 12
        tm  == (idx % 12) + 1
        endOfDesiredMonth == endOfMonth([day |-> DaysFromCivil(ty, tm, 1), ms |-> 0]).day
        daysInMonth == CivilOf(endOfDesiredMonth).d
    IN  IF c.d >= daysInMonth
        THEN [day |-> endOfDesiredMonth, ms |-> date.ms]
        ELSE [day |-> DaysFromCivil(ty, tm, c.d), ms |-> date.ms]

subMonths(date, amount) == addMonths(date, -amount)

isSameDay(a, b) == a.day = b.day

isSameMonth(a, b) ==
    /\ getFullYear(a) = getFullYear(b)
    /\ getMonth(a) = getMonth(b)

DigitChars == <<"0", "1", "2", "3", "4", "5", "6", "7", "8", "9">>
Digit(n) == DigitChars[n + 1]

\* Number.prototype.toString of a natural number
RECURSIVE Decimal(_)
Decimal(n) == IF n < 10 THEN Digit(n) ELSE Decimal(n \div 10) \o Digit(n % 10)

\* String.prototype.padStart(targetLength, "0")
RECURSIVE padStart(_, _)
padStart(str, targetLength) ==
    IF Len(str) >= targetLength THEN str ELSE padStart("0" \o str, targetLength)

\* pads to at least targetLength digits, never cuts
addLeadingZeros(number, targetLength) ==
    IF number < 0
    THEN "-" \o padStart(Decimal(-number), targetLength)
    ELSE padStart(Decimal(number), targetLength)

\* the tokens yyyy, MM and dd; a year <= 0 is written as 1 - year
FormatCivil(c) ==
    addLeadingZeros(IF c.y > 0 THEN c.y ELSE 1 - c.y, 4)
        \o "-" \o addLeadingZeros(c.m, 2)
        \o "-" \o addLeadingZeros(c.d, 2)

FormatTable == [z \in TabulatedDays |-> FormatCivil(CivilFromDays(z))] @@ <<>>

\* format(date, "dd")
formatDD(date) == addLeadingZeros(getDate(date), 2)

\* format(date, DayFormat), DayFormat = "yyyy-MM-dd"
formatDay(date) ==
    IF date.day \in TabulatedDays
    THEN FormatTable[date.day]
    ELSE FormatCivil(CivilFromDays(date.day))

\* Array.prototype.includes on a list of strings
includes(list, s) == \E i \in 1..Len(list) : list[i] = s

-----------------------------------------------------------------------------
(* The render pass of MonthView: the grid.                                 *)

weekStartsOn == 1

null == "null"

\* MonthDay with isCurrentMonth taken against the clock instead of from
MonthDayOfClockMonth(day, ref, offers, orders, clock) ==
    LET key == formatDay(day)
    IN  [day            |-> formatDD(day),
         date           |-> key,
         today          |-> isSameDay(day, clock),
         offer          |-> includes(offers, key),
         order          |-> includes(orders, key),
         isCurrentMonth |-> isSameMonth(day, clock)]

\* MonthDay that marks offers on the cells of the reference month only
MonthDayOfferInMonthOnly(day, ref, offers, orders, clock) ==
    LET key == formatDay(day)
    IN  [day            |-> formatDD(day),
         date           |-> key,
         today          |-> isSameDay(day, clock),
         offer          |-> isSameMonth(day, ref) /\ includes(offers, key),
         order          |-> includes(orders, key),
         isCurrentMonth |-> isSameMonth(day, ref)]

\* the object pushed for day; clock is what new Date() returns for this cell
MonthDay(day, ref, offers, orders, clock) ==
    LET key == formatDay(day)
    IN  [day            |-> formatDD(day),
         date           |-> key,
         today          |-> isSameDay(day, clock),
         offer          |-> includes(offers, key),
         order          |-> includes(orders, key),
         isCurrentMonth |-> isSameMonth(day, ref)]

\* new Date() is read anew for every cell.  reads = [first, tickAt, then]:
\* the cells up to tickAt read the clock as first, the later ones as then.
ClockAt(reads, i) == IF i <= reads.tickAt THEN reads.first ELSE reads.then

RECURSIVE BuildDays(_, _, _, _, _, _, _)
\* while (day <= lastSunday || isSameDay(day, lastSunday)) { push; day = addDays(day, 1) }
BuildDays(day, lastSunday, ref, offers, orders, reads, acc) ==
    IF DateLE(day, lastSunday) \/ isSameDay(day, lastSunday)
    THEN BuildDays(addDays(day, 1), lastSunday, ref, offers, orders, reads,
                   Append(acc, MonthDay(day, ref, offers, orders,
                                        ClockAt(reads, Len(acc) + 1))))
    ELSE acc

\* DaysOf with the weeks of date-fns' default, starting on Sunday
DaysOfSundayWeeks(ref, offers, orders, reads) ==
    LET monthStart  == startOfMonth(ref)
        monthEnd    == endOfMonth(ref)
        firstMonday == startOfWeek(monthStart, 0)
        lastSunday  == endOfWeek(monthEnd, 0)
    IN  BuildDays(firstMonday, lastSunday, ref, offers, orders, reads, <<>>)

\* the days array of a render with the given props and clock readings
DaysOf(ref, offers, orders, reads) ==
    LET monthStart  == startOfMonth(ref)
        monthEnd    == endOfMonth(ref)
        firstMonday == startOfWeek(monthStart, weekStartsOn)
        lastSunday  == endOfWeek(monthEnd, weekStartsOn)
    IN  BuildDays(firstMonday, lastSunday, ref, offers, orders, reads, <<>>)

\* for (i = 0; i < days.length; i += 7) weeks.push(days.slice(i, i + 7))
WeeksOf(ds) ==
    [w \in 1..((Len(ds) + 6) \div 7) |->
        SubSeq(ds, 7 * (w - 1) + 1, IF 7 * w < Len(ds) THEN 7 * w ELSE Len(ds))]

weeks == WeeksOf(days)

\* days.find(d => d.date === key): index of the first match, 0 for undefined
FindDay(ds, key) ==
    IF \E i \in 1..Len(ds) : ds[i].date = key
    THEN CHOOSE i \in 1..Len(ds) :
            /\ ds[i].date = key
            /\ \A j \in 1..(i - 1) : ds[j].date # key
    ELSE 0

-----------------------------------------------------------------------------
(* Inputs.                                                                 *)

\* the strings the parent may pass in offerDays / orderDays; the last one is
\* a date that is not zero-padded
GridKeys == {"2024-03-10", "2024-02-29", "2024-3-10"}

\* reference dates the grid specification starts from
GridDates ==
    { MkDate(2024, 3, 1, 0),
      MkDate(2021, 2, 15, 12 * 60 * 60 * 1000),
      MkDate(2025, 3, 31, MsPerDay - 1) }

\* the values the wall clock takes: the last millisecond of a day, the first
\* of the next, and a day of another year
Clocks ==
    { MkDate(2021, 1, 31, 0),
      MkDate(2024, 1, 8, MsPerDay - 1),
      MkDate(2024, 1, 9, 0) }

GridClocks == { MkDate(2021, 1, 31, 0), MkDate(2024, 1, 8, MsPerDay - 1) }

\* reference dates the component specification starts from
InitDates == { MkDate(2024, 1, 31, 10 * 60 * 60 * 1000 + 30 * 60 * 1000) }

\* one list with a day of the starting month, one whose date is not zero-padded
InitOffers == { <<"2024-01-31">>, <<"2024-1-31">> }

InitOrders == { <<"2024-02-05">> }

InitClock == MkDate(2024, 1, 8, MsPerDay - 1)

MonthIndex(date) == getFullYear(date) * 12 + getMonth(date) - 1

\* the reference month stays within span months of a starting month
Within(date, anchors, span) ==
    \E a \in anchors :
        /\ MonthIndex(date) - MonthIndex(a) <= span
        /\ MonthIndex(a) - MonthIndex(date) <= span

SeqsUpTo(S, n) == UNION { [1..k -> S] : k \in 0..n }

\* the cells the model presses: the first cell and every cell marked with an
\* offer or an order
TapCells == { i \in 1..Len(days) : i = 1 \/ days[i].offer \/ days[i].order }

\* The clock readings of one render that starts with the clock at clock:
\* either every cell reads clock, or the clock moves on to a later value
\* during the loop, right after the cell of clock's day was pushed (a move at
\* any other point gives the cells of a render that starts before or after
\* the move).
Readings(ref, clock) ==
    LET firstMonday == startOfWeek(startOfMonth(ref), weekStartsOn)
        lastSunday  == endOfWeek(endOfMonth(ref), weekStartsOn)
        k           == clock.day - firstMonday.day + 1
    IN  {[first |-> clock, tickAt |-> 0, then |-> clock]}
        \cup {[first |-> clock, tickAt |-> k, then |-> c] :
                c \in {x \in Clocks : /\ DateLT(clock, x)
                                      /\ 1 <= k
                                      /\ clock.day < lastSunday.day}}

\* the component re-renders after a change of props or state: days is rebuilt
\* with the clock as it is then
Render ==
    \E reads \in Readings(from', now) :
        /\ now' = reads.then
        /\ days' = DaysOf(from', offerDays', orderDays', reads)

-----------------------------------------------------------------------------
(* State after the first render.                                           *)

InitState ==
    /\ selectedDate = null
    /\ popup = [visible |-> FALSE, message |-> "", type |-> "success"]
    /\ inflight = EmptyBag
    /\ completed = "none"

FirstRender(clocks) ==
    \E c \in clocks : \E reads \in Readings(from, c) :
        /\ now = reads.then
        /\ days = DaysOf(from, offerDays, orderDays, reads)

Init ==
    /\ from \in InitDates
    /\ offerDays \in InitOffers
    /\ orderDays \in InitOrders
    /\ FirstRender({InitClock})
    /\ InitState

InitGrid ==
    /\ from \in GridDates
    /\ \E p \in { q \in SeqsUpTo(GridKeys, MaxKeys) \X SeqsUpTo(GridKeys, MaxKeys) :
                    Len(q[1]) + Len(q[2]) <= MaxKeys } :
          /\ offerDays = p[1]
          /\ orderDays = p[2]
    /\ FirstRender(GridClocks)
    /\ InitState

-----------------------------------------------------------------------------
(* Handlers.                                                               *)

\* onMonthChange?.(subMonths(from, 1)); the parent passes the date back as
\* from, which re-renders the component
handlePreviousMonth ==
    /\ from' = subMonths(from, 1)
    /\ UNCHANGED <<offerDays, orderDays, selectedDate, popup, inflight, completed>>
    /\ Render

\* handleNextMonth that also clears the selection
handleNextMonthClearsSelection ==
    /\ from' = addMonths(from, 1)
    /\ selectedDate' = null
    /\ UNCHANGED <<offerDays, orderDays, popup, inflight, completed>>
    /\ Render

\* onMonthChange?.(addMonths(from, 1))
handleNextMonth ==
    /\ from' = addMonths(from, 1)
    /\ UNCHANGED <<offerDays, orderDays, selectedDate, popup, inflight, completed>>
    /\ Render

\* handleDayPress without the isCurrentMonth test
handleDayPressAnyCell(dayData) ==
    selectedDate' = dayData.date

\* the handler sets selectedDate or does nothing
handleDayPress(dayData) ==
    IF dayData.isCurrentMonth
    THEN selectedDate' = dayData.date
    ELSE UNCHANGED selectedDate

showPopup(message, type) ==
    popup' = [visible |-> TRUE, message |-> message, type |-> type]

\* the popup texts, Polish diacritics written as their base letters
MsgSuccess == "Zamowienie zostalo zlozone pomyslnie!"
MsgServer == "Wystapil blad podczas skladania zamowienia"
MsgConnection == "Blad polaczenia. Sprawdz internet i sprobuj ponownie"

\* if (selectedDate): null and the empty string are falsy
Truthy(s) == s # null /\ s # ""

\* handleOrder without the test of the selected day's offer
handleOrderNoOfferTest ==
    IF Truthy(selectedDate)
    THEN /\ inflight' = inflight (+) SetToBag({[date |-> selectedDate, at |-> "fetch"]})
         /\ UNCHANGED <<from, offerDays, orderDays, now, days, selectedDate, popup, completed>>
    ELSE UNCHANGED vars

\* handleOrder up to its first await: the POST is issued with body.date =
\* selectedDate (body.timestamp, the clock reading, is not modelled); no
\* state is set, so nothing re-renders
handleOrder ==
    IF Truthy(selectedDate)
    THEN LET selectedDay == FindDay(days, selectedDate)
         IN  IF selectedDay # 0 /\ days[selectedDay].offer
             THEN /\ inflight' = inflight (+) SetToBag({[date |-> selectedDate, at |-> "fetch"]})
                  /\ UNCHANGED <<from, offerDays, orderDays, now, days, selectedDate, popup, completed>>
             ELSE UNCHANGED vars
    ELSE UNCHANGED vars

\* getSelectedDayInfo that looks the selected date up in offerDays, not in days
getSelectedDayInfoFromProps ==
    IF ~Truthy(selectedDate)
    THEN [none |-> TRUE]
    ELSE [none        |-> FALSE,
          showButton  |-> TRUE,
          isAvailable |-> includes(offerDays, selectedDate)]

\* null, or [showButton, isAvailable] (the text field is presentation only)
getSelectedDayInfo ==
    IF ~Truthy(selectedDate)
    THEN [none |-> TRUE]
    ELSE LET selectedDay == FindDay(days, selectedDate)
         IN  [none        |-> FALSE,
              showButton  |-> TRUE,
              isAvailable |-> IF selectedDay # 0 THEN days[selectedDay].offer ELSE FALSE]

selectedDayInfo == getSelectedDayInfo

\* OrderPress behind a single-flight guard
OrderPressSingleFlight ==
    /\ ~selectedDayInfo.none
    /\ inflight = EmptyBag
    /\ IF selectedDayInfo.isAvailable THEN handleOrder ELSE UNCHANGED vars

\* the order button: rendered when selectedDayInfo is not null;
\* onPress = isAvailable ? handleOrder : undefined, disabled = !isAvailable
OrderPress ==
    /\ ~selectedDayInfo.none
    /\ BagCardinality(inflight) < MaxInFlight
    /\ IF selectedDayInfo.isAvailable THEN handleOrder ELSE UNCHANGED vars

\* the handleOrder invocation r leaves the bag
Settled(r) == inflight' = inflight (-) SetToBag({r})

\* fetch resolved, response.ok: the invocation awaits response.json()
FetchOk(r) ==
    /\ r.at = "fetch"
    /\ inflight' = (inflight (-) SetToBag({r})) (+) SetToBag({[r EXCEPT !.at = "json"]})
    /\ UNCHANGED <<from, offerDays, orderDays, now, days, selectedDate, popup, completed>>

\* fetch resolved, !response.ok; setPopup re-renders
FetchNotOk(r) ==
    /\ r.at = "fetch"
    /\ Settled(r)
    /\ showPopup(MsgServer, "error")
    /\ completed' = "httpError"
    /\ UNCHANGED <<from, offerDays, orderDays, selectedDate>>
    /\ Render

\* fetch rejected (no response): the catch block
FetchRejected(r) ==
    /\ r.at = "fetch"
    /\ Settled(r)
    /\ showPopup(MsgConnection, "error")
    /\ completed' = "networkError"
    /\ UNCHANGED <<from, offerDays, orderDays, selectedDate>>
    /\ Render

\* response.json() resolved
JsonResolved(r) ==
    /\ r.at = "json"
    /\ Settled(r)
    /\ showPopup(MsgSuccess, "success")
    /\ completed' = "ok"
    /\ UNCHANGED <<from, offerDays, orderDays, selectedDate>>
    /\ Render

\* response.json() rejected: the body of the 2xx response is not JSON
\* ("badBody") or the connection broke while reading it; the catch block
JsonRejected(r) ==
    /\ r.at = "json"
    /\ Settled(r)
    /\ showPopup(MsgConnection, "error")
    /\ completed' \in {"badBody", "networkError"}
    /\ UNCHANGED <<from, offerDays, orderDays, selectedDate>>
    /\ Render

\* the popup's OK button and onRequestClose: setPopup with a new object
closePopup ==
    /\ popup.visible
    /\ popup' = [popup EXCEPT !.visible = FALSE]
    /\ UNCHANGED <<from, offerDays, orderDays, selectedDate, inflight, completed>>
    /\ Render

\* onLayout: setWidth with a new width re-renders
onLayout ==
    /\ UNCHANGED <<from, offerDays, orderDays, selectedDate, popup, inflight, completed>>
    /\ Render

\* the wall clock moves on
Tick ==
    /\ \E c \in Clocks : DateLT(now, c) /\ now' = c
    /\ UNCHANGED <<from, offerDays, orderDays, days, selectedDate, popup, inflight, completed>>

-----------------------------------------------------------------------------
(* Events.                                                                 *)

PreviousMonth == Within(subMonths(from, 1), InitDates, NavSpan) /\ handlePreviousMonth

NextMonth == Within(addMonths(from, 1), InitDates, NavSpan) /\ handleNextMonth

\* a press of a cell; setSelectedDate with a new value re-renders, with the
\* value it already has it does not
DayPress ==
    \E i \in TapCells :
        /\ handleDayPress(days[i])
        /\ UNCHANGED <<from, offerDays, orderDays, popup, inflight, completed>>
        /\ IF selectedDate' # selectedDate THEN Render ELSE UNCHANGED <<now, days>>

Next ==
    \/ PreviousMonth
    \/ NextMonth
    \/ DayPress
    \/ OrderPress
    \/ \E r \in BagToSet(inflight) : FetchOk(r)
    \/ \E r \in BagToSet(inflight) : FetchNotOk(r)
    \/ \E r \in BagToSet(inflight) : FetchRejected(r)
    \/ \E r \in BagToSet(inflight) : JsonResolved(r)
    \/ \E r \in BagToSet(inflight) : JsonRejected(r)
    \/ closePopup
    \/ onLayout
    \/ Tick

Spec == Init /\ [][Next]_vars

GridPreviousMonth == Within(subMonths(from, 1), GridDates, GridSpan) /\ handlePreviousMonth

GridNextMonth == Within(addMonths(from, 1), GridDates, GridSpan) /\ handleNextMonth

NextGrid ==
    \/ GridPreviousMonth
    \/ GridNextMonth

SpecGrid == InitGrid /\ [][NextGrid]_vars

-----------------------------------------------------------------------------
(* A calendar written independently of the model of Date and date-fns: the *)
(* Gregorian month table, and the weekday by Sakamoto's congruence.  The   *)
(* properties of the grid are stated against it.                           *)

IsLeapYear(y) == (y % 4 = 0 /\ y % 100 # 0) \/ y % 400 = 0

MonthLength(y, m) ==
    IF m = 2 THEN (IF IsLeapYear(y) THEN 29 ELSE 28)
    ELSE IF m \in {4, 6, 9, 11} THEN 30 ELSE 31

\* 0 = Sunday .. 6 = Saturday
SakamotoTable == <<0, 3, 2, 5, 0, 3, 5, 1, 4, 6, 2, 4>>
Weekday(y, m, d) ==
    LET yy == IF m < 3 THEN y - 1 ELSE y
    IN  (yy + yy \div 4 - yy \div 100 + yy \div 400 + SakamotoTable[m] + d) % 7

\* days from 1970-01-01 to the first day of year y (y >= 1970): 365 a year
\* and one more for each leap year since 1970
DaysBeforeYear(y) ==
    365 * (y - 1970) + (y - 1969) \div 4 - (y - 1901) \div 100 + (y - 1601) \div 400

RECURSIVE DaysBeforeMonth(_, _)
DaysBeforeMonth(y, m) ==
    IF m = 1 THEN 0 ELSE DaysBeforeMonth(y, m - 1) + MonthLength(y, m - 1)

\* days since 1970-01-01 of the first day of month m of year y
FirstOfMonth(y, m) == DaysBeforeYear(y) + DaysBeforeMonth(y, m)

CalendarYears == 2019..2027

\* the <<year, month>> that holds the day count n
MonthHolding(n) ==
    CHOOSE ym \in CalendarYears \X (1..12) :
        /\ FirstOfMonth(ym[1], ym[2]) <= n
        /\ n < FirstOfMonth(ym[1], ym[2]) + MonthLength(ym[1], ym[2])

PrevMonth(ym) == IF ym[2] = 1 THEN <<ym[1] - 1, 12>> ELSE <<ym[1], ym[2] - 1>>
SuccMonth(ym) == IF ym[2] = 12 THEN <<ym[1] + 1, 1>> ELSE <<ym[1], ym[2] + 1>>

\* yyyy-MM-dd of a date of the years 1000..9999
TwoDigits(n) == Digit(n \div 10) \o Digit(n % 10)
KeyOf(y, m, d) ==
    TwoDigits(y \div 100) \o TwoDigits(y % 100) \o "-" \o TwoDigits(m) \o "-" \o TwoDigits(d)

\* the reference month of a reference date and the grid it calls for: from
\* the Monday on or before its first day to the Sunday on or after its last
RefOf(date) ==
    LET ym  == MonthHolding(date.day)
        len == MonthLength(ym[1], ym[2])
    IN  [ym       |-> ym,
         length   |-> len,
         leading  |-> (Weekday(ym[1], ym[2], 1) + 6) % 7,
         trailing |-> (7 - Weekday(ym[1], ym[2], len)) % 7,
         pm       |-> PrevMonth(ym),
         sm       |-> SuccMonth(ym)]

\* the date string of the n-th cell of that grid (n = 1 is the Monday)
ExpectedKey(ref, n) ==
    IF n <= ref.leading
    THEN KeyOf(ref.pm[1], ref.pm[2],
               MonthLength(ref.pm[1], ref.pm[2]) - (ref.leading - n))
    ELSE IF n <= ref.leading + ref.length
    THEN KeyOf(ref.ym[1], ref.ym[2], n - ref.leading)
    ELSE KeyOf(ref.sm[1], ref.sm[2], n - ref.leading - ref.length)

\* the date strings of the reference month
InMonthKeys(ref) == { KeyOf(ref.ym[1], ref.ym[2], d) : d \in 1..ref.length }

-----------------------------------------------------------------------------
(* The grid.                                                               *)

\* C1: the grid is exactly the consecutive dates from the Monday on or before
\* the first day of the reference month to the Sunday on or after its last
\* day, in order; so its length is a multiple of 7, it starts on a Monday,
\* ends on a Sunday and slices into whole weeks (reference 2024-03-01 gives
\* 2024-02-26 .. 2024-03-31, 35 cells).
C1_GridIsWholeWeeks ==
    LET ref == RefOf(from)
        wks == weeks
    IN  /\ Len(days) = ref.leading + ref.length + ref.trailing
        /\ \A i \in 1..Len(days) : days[i].date = ExpectedKey(ref, i)
        /\ Len(days) % 7 = 0
        /\ (Weekday(ref.ym[1], ref.ym[2], 1) - ref.leading) % 7 = 1
        /\ (Weekday(ref.ym[1], ref.ym[2], ref.length) + ref.trailing) % 7 = 0
        /\ \A w \in DOMAIN wks :
              /\ Len(wks[w]) = 7
              /\ \A k \in 1..7 : wks[w][k] = days[7 * (w - 1) + k]
        /\ ref.ym = <<2024, 3>> =>
              /\ Len(days) = 35
              /\ days[1].date = "2024-02-26"
              /\ days[35].date = "2024-03-31"

C1_Witness ==
    /\ from = MkDate(2024, 3, 1, 0)
    /\ Len(days) = 35
    /\ days[1].date = "2024-02-26"

\* C2: every date of the reference month is in the grid exactly once, with
\* isCurrentMonth true, and every other cell has isCurrentMonth false.
C2_CurrentMonthCells ==
    LET keys == InMonthKeys(RefOf(from))
    IN  /\ \A k \in keys :
              Cardinality({ i \in 1..Len(days) : days[i].date = k }) = 1
        /\ \A i \in 1..Len(days) :
              days[i].isCurrentMonth <=> days[i].date \in keys
        /\ Cardinality({ i \in 1..Len(days) : days[i].isCurrentMonth }) = Cardinality(keys)

C2_Witness ==
    /\ ~days[1].isCurrentMonth
    /\ ~days[Len(days)].isCurrentMonth
    /\ days[8].isCurrentMonth

\* C3: a cell's offer flag is true iff its date string is an element of
\* offerDays, its order flag iff it is an element of orderDays, whatever the
\* other flag and isCurrentMonth are; with offerDays = ["2024-03-10"] only the
\* cell of 2024-03-10 has an offer.
C3_FlagsAreMembership ==
    LET ref    == RefOf(from)
        offers == { offerDays[j] : j \in 1..Len(offerDays) }
        orders == { orderDays[j] : j \in 1..Len(orderDays) }
    IN  /\ \A i \in 1..Len(days) :
              /\ days[i].offer <=> ExpectedKey(ref, i) \in offers
              /\ days[i].order <=> ExpectedKey(ref, i) \in orders
        /\ offerDays = <<"2024-03-10">> =>
              { i \in 1..Len(days) : days[i].offer } =
                  (IF ref.ym = <<2024, 3>> THEN {14} ELSE {})

C3_Witness ==
    \E i \in 1..Len(days) :
        /\ ~days[i].isCurrentMonth
        /\ days[i].offer
        /\ ~days[i].order
        /\ \E j \in 1..Len(days) : days[j].order /\ ~days[j].offer

-----------------------------------------------------------------------------
(* Selection and submission.                                               *)

InFlight == BagCardinality(inflight)

\* the selected date is the date of a cell of the current grid with an offer
SelectedCellHasOffer ==
    /\ selectedDate # null
    /\ \E i \in 1..Len(days) : days[i].date = selectedDate /\ days[i].offer

\* C4: a day press on a cell with isCurrentMonth false leaves the selection
\* as it was; on a cell with isCurrentMonth true it sets the selection to
\* that cell's date, whatever was selected before.
C4_DayPressSelectsInMonthOnly ==
    \A i \in 1..Len(days) :
        /\ ENABLED handleDayPress(days[i])
        /\ IF days[i].isCurrentMonth
           THEN ~ ENABLED (handleDayPress(days[i]) /\ selectedDate' # days[i].date)
           ELSE ~ ENABLED (handleDayPress(days[i]) /\ selectedDate' # selectedDate)

C4_Witness ==
    /\ selectedDate # null
    /\ \E i \in TapCells : ~days[i].isCurrentMonth /\ days[i].offer
    /\ \E i \in TapCells : days[i].isCurrentMonth /\ days[i].date # selectedDate

\* C5: the order action is available iff a date is selected and the current
\* grid has a cell of that date whose offer flag is true; it is not when
\* nothing is selected, when the selected cell has no offer, and when the
\* selected date is not in the displayed grid though offerDays holds it.
C5_OrderAvailability ==
    /\ (~selectedDayInfo.none /\ selectedDayInfo.isAvailable) <=> SelectedCellHasOffer
    /\ InFlight < MaxInFlight =>
          ((ENABLED (OrderPress /\ inflight' # inflight)) <=> SelectedCellHasOffer)
    /\ selectedDate = null => selectedDayInfo.none
    /\ (selectedDate # null /\ \A i \in 1..Len(days) : days[i].date # selectedDate) =>
          ~selectedDayInfo.isAvailable

C5_Witness ==
    /\ selectedDate # null
    /\ includes(offerDays, selectedDate)
    /\ \A i \in 1..Len(days) : days[i].date # selectedDate
    /\ ~selectedDayInfo.isAvailable

\* C6 as stated: the selected date, if any, is a date of the displayed
\* reference month.
C6_SelectionInDisplayedMonth ==
    selectedDate # null => selectedDate \in InMonthKeys(RefOf(from))

\* C6 amended: whenever the selection changes, the new selected date is a
\* date of the reference month displayed at that moment.
C6_SelectionInMonthWhenMade ==
    [][selectedDate' # selectedDate =>
          /\ selectedDate' \in InMonthKeys(RefOf(from))
          /\ from' = from]_vars

C6_Witness ==
    /\ selectedDate # null
    /\ selectedDate \in InMonthKeys(RefOf(from))
    /\ \E i \in TapCells : ~days[i].isCurrentMonth

\* C7: a request is issued only from a state where a date is selected and
\* the current grid has a cell of that date with an offer, and its date is
\* that selected date; handleOrder in any other state changes nothing.
C7_RequestsOnlyForSelectedOffer ==
    /\ [][InFlight' > InFlight =>
             /\ SelectedCellHasOffer
             /\ inflight' = inflight (+) SetToBag({[date |-> selectedDate, at |-> "fetch"]})
             /\ popup' = popup
             /\ selectedDate' = selectedDate]_vars
    /\ [](~SelectedCellHasOffer => ~ ENABLED (handleOrder /\ vars' # vars))
    /\ [](\A r \in BagToSet(inflight) : includes(offerDays, r.date))

C7_Witness ==
    /\ InFlight > 0
    /\ \E r \in BagToSet(inflight) : r.date # selectedDate
    /\ ~SelectedCellHasOffer

\* C8: the popup follows the gateway result of the submission that settled
\* last: success for a 2xx response, the server-error text for a non-2xx
\* response, the connection text for a transport failure and only for one.
C8_PopupFollowsGatewayResult ==
    /\ completed \in {"ok", "badBody"} =>
          popup.type = "success" /\ popup.message = MsgSuccess
    /\ completed = "httpError" =>
          popup.type = "error" /\ popup.message = MsgServer
    /\ completed = "networkError" =>
          popup.type = "error" /\ popup.message = MsgConnection
    /\ popup.message = MsgConnection => completed = "networkError"

\* C9: only a day press on an in-month cell changes the selection: a step
\* that changes it changes nothing else and selects an in-month cell of the
\* grid, and a selection is never cleared.
C9_SelectionChangedOnlyByDayPress ==
    [][/\ selectedDate' # selectedDate =>
             /\ \E i \in 1..Len(days) :
                   days[i].isCurrentMonth /\ selectedDate' = days[i].date
             /\ UNCHANGED <<from, offerDays, orderDays, popup, inflight, completed>>
       /\ selectedDate # null => selectedDate' # null]_vars

C9_Witness ==
    /\ selectedDate # null
    /\ selectedDate \notin InMonthKeys(RefOf(from))
    /\ completed = "networkError"
    /\ ~popup.visible
    /\ InFlight > 0

\* C10: submission has no in-flight guard: while a request is outstanding a
\* further one can be issued; each result sets the one popup as it settles,
\* so the popup shows the result that settled last, and a result that
\* settles after a dismissal makes the popup visible again.
C10_NoInFlightGuard ==
    /\ []((SelectedCellHasOffer /\ InFlight < MaxInFlight) =>
             ENABLED (OrderPress /\ InFlight' = InFlight + 1))
    /\ [][InFlight' < InFlight =>
             /\ popup'.visible
             /\ popup'.type = (IF completed' = "ok" THEN "success" ELSE "error")]_vars

C10_Witness ==
    /\ InFlight >= 2
    /\ \E r \in BagToSet(inflight) : r.at = "json"
    /\ ~popup.visible
    /\ completed # "none"

====
